---------------------------- MODULE Spec2Model ----------------------------
(***************************************************************************)
(* Model of the dojo_sandbox_schemas contracts:                            *)
(*   - SandboxJobInput and its combine method        (schemas/sandbox.py)  *)
(*   - SandboxJobCreate and its field defaults       (schemas/sandbox.py)  *)
(*   - WorkerEnvironment and its required fields     (schemas/workers.py)  *)
(*                                                                         *)
(* An Optional[T] value is a sequence of length at most one: None is the   *)
(* empty sequence and a present value v is <<v>>.  A present empty string  *)
(* is therefore <<"">> and a present empty list is << <<>> >>, both        *)
(* different from None, as in Python.                                      *)
(***************************************************************************)
EXTENDS Naturals, Sequences, FiniteSets, TLC

VARIABLES
    self,         \* the default input, receiver of combine
    override,     \* the override input, argument of combine
    result,       \* self.combine(override)
    reverse,      \* override.combine(self)
    third,        \* a further override layered on top
    left,         \* self.combine(override).combine(third)
    right,        \* self.combine(override.combine(third))
    raised,       \* TRUE when the last constructor call raised ValidationError
    pc,           \* position of the caller
    createKw,     \* keyword arguments given to SandboxJobCreate(...)
    job,          \* the SandboxJobCreate object built from createKw
    effective,    \* check id -> job.base_input.combine(job.inputs[check id])
    envKw,        \* keyword arguments given to WorkerEnvironment(...)
    env           \* the WorkerEnvironment object built from envKw

combineVars == <<self, override, result, reverse, third, left, right>>
createVars  == <<createKw, job, effective>>
envVars     == <<envKw, env>>
vars == <<self, override, result, reverse, third, left, right, raised, pc,
          createKw, job, effective, envKw, env>>

---------------------------------------------------------------------------
(* Optional values *)

None == <<>>

Some(v) == <<v>>

(* Longest list of parameters, and of files, an input carries *)
MaxLen == 1

(* WorkerFile.permissions default *)
DefaultPermissions == 644

(* SandboxJobCreate.timeout default *)
DefaultTimeout == 30

---------------------------------------------------------------------------
(* Python truthiness, as used by the `or` operator *)

(* bool(x) for x : Optional[str]; None and "" are falsy *)
TruthyStr(x) == x # None /\ x[1] # ""

(* bool(x) for x : Optional[list]; None and [] are falsy *)
TruthyList(x) == x # None /\ Len(x[1]) > 0

(* x or y, x and y : Optional[str] *)
OrStr(x, y) == IF TruthyStr(x) THEN x ELSE y

(* x or y, x and y : Optional[list] *)
OrList(x, y) == IF TruthyList(x) THEN x ELSE y

---------------------------------------------------------------------------
(* WorkerFile and the values of the SandboxJobInput fields *)

WorkerFileType == {"File", "Directory", "Downloader", "Uploader"}

(* WorkerFile(path=p, type=t): permissions and data take their defaults *)
WorkerFile(p, t) ==
    [path |-> p, type |-> t, permissions |-> DefaultPermissions, data |-> None]

CodeFile == WorkerFile("code.py", "File")

(* Lists of length at most n over the elements of S *)
ListsUpTo(S, n) == UNION {[1..k -> S] : k \in 0..n}

StdinValues == {None, Some(""), Some("5"), Some("10")}

ParametersValues == {None} \cup {Some(l) : l \in ListsUpTo({"-v"}, MaxLen)}

FilesValues == {None} \cup {Some(l) : l \in ListsUpTo({CodeFile}, MaxLen)}

CommandValues == {None, Some(""), Some("python solve.py")}

Fields == {"stdin", "parameters", "files", "command"}

(* The type SandboxJobInput *)
SandboxJobInputs ==
    [stdin : StdinValues, parameters : ParametersValues,
     files : FilesValues, command : CommandValues]

(* SandboxJobInput(): every field takes its default, None *)
SandboxJobInput ==
    [stdin |-> None, parameters |-> None, files |-> None, command |-> None]

(* Field validation of the SandboxJobInput constructor *)
Validates(kw) ==
    /\ kw.stdin \in StdinValues
    /\ kw.parameters \in ParametersValues
    /\ kw.files \in FilesValues
    /\ kw.command \in CommandValues

---------------------------------------------------------------------------
(* SandboxJobInput.combine *)

(* A combine that loses the default's value when it is empty *)
combineDropsEmptyDefault(d, o) ==
    [stdin      |-> OrStr(OrStr(o.stdin, d.stdin), None),
     parameters |-> OrList(OrList(o.parameters, d.parameters), None),
     files      |-> OrList(OrList(o.files, d.files), None),
     command    |-> OrStr(OrStr(o.command, d.command), None)]

(* A combine that forgets the fallback of the command field *)
combineNoCommandFallback(d, o) ==
    [stdin      |-> OrStr(o.stdin, d.stdin),
     parameters |-> OrList(o.parameters, d.parameters),
     files      |-> OrList(o.files, d.files),
     command    |-> o.command]

(* A combine that reads stdin and command from each other's override *)
combineTransposed(d, o) ==
    [stdin      |-> OrStr(o.command, d.stdin),
     parameters |-> OrList(o.parameters, d.parameters),
     files      |-> OrList(o.files, d.files),
     command    |-> OrStr(o.stdin, d.command)]

(* d.combine(o): the keyword arguments handed to SandboxJobInput(...) *)
combine(d, o) ==
    [stdin      |-> OrStr(o.stdin, d.stdin),
     parameters |-> OrList(o.parameters, d.parameters),
     files      |-> OrList(o.files, d.files),
     command    |-> OrStr(o.command, d.command)]

---------------------------------------------------------------------------
(* Callers of combine: one default, one override, and a further layer *)

InitCombine ==
    /\ self \in SandboxJobInputs
    /\ override \in SandboxJobInputs
    /\ result = None /\ reverse = None
    /\ third = None /\ left = None /\ right = None
    /\ raised = FALSE
    /\ pc = "ready"
    /\ createKw = None /\ job = None /\ effective = None
    /\ envKw = None /\ env = None

(* A combine that stores the merged input in the receiver as well *)
CallCombineInPlace ==
    /\ pc = "ready"
    /\ result' = combine(self, override)
    /\ self' = combine(self, override)
    /\ raised' = ~Validates(combine(self, override))
    /\ pc' = "combined"
    /\ UNCHANGED <<override, reverse, third, left, right>>
    /\ UNCHANGED <<createVars, envVars>>

(* result = self.combine(override) *)
CallCombine ==
    /\ pc = "ready"
    /\ IF Validates(combine(self, override))
       THEN /\ result' = combine(self, override)
            /\ raised' = FALSE
            /\ pc' = "combined"
       ELSE /\ result' = result
            /\ raised' = TRUE
            /\ pc' = "failed"
    /\ UNCHANGED <<self, override, reverse, third, left, right>>
    /\ UNCHANGED <<createVars, envVars>>

(* reverse = override.combine(self) *)
CallReverse ==
    /\ pc = "combined"
    /\ IF Validates(combine(override, self))
       THEN /\ reverse' = combine(override, self)
            /\ raised' = FALSE
            /\ pc' = "reversed"
       ELSE /\ reverse' = reverse
            /\ raised' = TRUE
            /\ pc' = "failed"
    /\ UNCHANGED <<self, override, result, third, left, right>>
    /\ UNCHANGED <<createVars, envVars>>

(* left = result.combine(c) and right = self.combine(override.combine(c)) *)
CallLayer ==
    /\ pc = "combined"
    /\ \E c \in SandboxJobInputs :
          /\ third' = c
          /\ left' = combine(result, c)
          /\ right' = combine(self, combine(override, c))
    /\ raised' = FALSE
    /\ pc' = "layered"
    /\ UNCHANGED <<self, override, result, reverse>>
    /\ UNCHANGED <<createVars, envVars>>

NextCombine == CallCombine \/ CallReverse \/ CallLayer

SpecCombine == InitCombine /\ [][NextCombine]_vars

---------------------------------------------------------------------------
(* Properties of combine, checked under SpecCombine *)

(* self.combine(override) has returned *)
Combined == pc \in {"combined", "reversed", "layered"}

(* C1: for each of the four fields, when the override's field is present  *)
(* (non-null, an empty string or an empty list included) the field of     *)
(* self.combine(override) equals the override's field.                    *)
C1_PresentOverrideWins ==
    Combined =>
        \A f \in Fields : override[f] # None => result[f] = override[f]

(* C2: for each of the four fields, when the override's field is null the *)
(* field of self.combine(override) equals the default's field exactly,    *)
(* null or empty included, whatever the other three fields hold.          *)
C2_NullOverrideFallsBack ==
    Combined =>
        \A f \in Fields : override[f] = None => result[f] = self[f]

C2_Witness ==
    /\ Combined
    /\ override.stdin = None /\ self.stdin = Some("") /\ result.stdin = Some("")
    /\ override.files = None /\ self.files = None /\ result.files = None
    /\ override.command = Some("python solve.py") /\ self.command = Some("")

(* C3: the all-unset input is a right identity of combine:                *)
(* self.combine(SandboxJobInput()) equals self in all four fields, also   *)
(* when self has empty-but-present fields.                                *)
C3_UnsetIsRightIdentity ==
    (Combined /\ override = SandboxJobInput) => result = self

C3_Witness ==
    /\ Combined
    /\ override = SandboxJobInput
    /\ self.stdin = Some("5") /\ self.parameters = Some(<<>>)
    /\ self.files = None /\ self.command = Some("")
    /\ result = self

(* C4: whenever self and override both have a present value for the same  *)
(* field and the values differ, self.combine(override) carries the        *)
(* override's value and override.combine(self) carries self's value for   *)
(* that field, so the two results differ.                                 *)
C4_NotCommutative ==
    pc = "reversed" =>
        \A f \in Fields :
            (self[f] # None /\ override[f] # None /\ self[f] # override[f]) =>
                /\ result[f] = override[f]
                /\ reverse[f] = self[f]
                /\ result # reverse

(* C5: combine is total and has no side effects: in each of the 16 x 16   *)
(* presence combinations the call returns a SandboxJobInput without       *)
(* raising, and every field of the receiver and of the argument keeps the *)
(* value it had before the call.                                          *)
C5_TotalAndPure ==
    [][/\ self' = self
       /\ override' = override
       /\ ~raised' /\ pc' # "failed"
       /\ (pc = "ready" /\ pc' # "ready") =>
              (pc' = "combined" /\ result' \in SandboxJobInputs)]_vars

C5_Witness ==
    /\ pc = "combined" /\ ~raised
    /\ self = [stdin |-> Some("10"), parameters |-> None,
               files |-> Some(<<CodeFile>>), command |-> None]
    /\ override = [stdin |-> Some("5"), parameters |-> Some(<<"-v">>),
                   files |-> None, command |-> None]
    /\ result = [stdin |-> Some("5"), parameters |-> Some(<<"-v">>),
                 files |-> Some(<<CodeFile>>), command |-> None]

(* C10: combine is associative: self.combine(override).combine(third)     *)
(* equals self.combine(override.combine(third)) in all four fields, also  *)
(* for inputs with empty-but-present fields.                              *)
C10_Associative ==
    pc = "layered" => left = right

C10_Witness ==
    /\ pc = "layered"
    /\ self.stdin = Some("10") /\ override.stdin = Some("5")
    /\ third.stdin = Some("") /\ left.stdin = Some("5")
    /\ self.parameters = Some(<<"-v">>) /\ override.parameters = Some(<<>>)
    /\ third.parameters = None /\ left.parameters = Some(<<"-v">>)
    /\ third.command = Some("python solve.py") /\ left.command = third.command
    /\ left = right

---------------------------------------------------------------------------
(* Construction of a pydantic model from keyword arguments.  A field      *)
(* table gives, for every declared field, whether it is required and the  *)
(* default it takes otherwise; keyword arguments that name no declared    *)
(* field are ignored.                                                     *)

Required == [required |-> TRUE, default |-> None]

Default(v) == [required |-> FALSE, default |-> v]

(* The required fields that kw does not supply: a ValidationError if any *)
MissingFields(fields, kw) ==
    {n \in DOMAIN fields : fields[n].required /\ n \notin DOMAIN kw}

(* The object built from kw *)
Construct(fields, kw) ==
    [n \in DOMAIN fields |->
        IF n \in DOMAIN kw THEN kw[n] ELSE fields[n].default]

(* The keyword arguments that supply the names of G out of the record r *)
Kwargs(r, G) == [n \in G |-> r[n]]

---------------------------------------------------------------------------
(* WorkerEnvironment *)

(* A WorkerEnvironment whose before_command has a default *)
WorkerEnvironmentFieldsSingleCommand ==
    [id                |-> Required,
     image             |-> Required,
     image_pull_secret |-> Default(None),
     files             |-> Default(<<>>),
     before_command    |-> Default(""),
     command           |-> Required,
     requires_files    |-> Default(None)]

(* The fields the class declares.  image_pull_secret is Optional without  *)
(* a default, which the pydantic API of Config.orm_mode reads as optional *)
(* with default None.                                                     *)
WorkerEnvironmentFields ==
    [id                |-> Required,
     image             |-> Required,
     image_pull_secret |-> Default(None),
     files             |-> Default(<<>>),
     before_command    |-> Required,
     command           |-> Required,
     requires_files    |-> Default(None)]

(* Keyword arguments a caller may pass, requires_user_files included *)
EnvKwNames ==
    {"id", "image", "image_pull_secret", "files", "before_command",
     "command", "requires_files", "requires_user_files"}

EnvKwValues ==
    [id                  : {"python"},
     image               : {"python:3.11"},
     image_pull_secret   : {None, Some("secret")},
     files               : {<<>>, <<WorkerFile("data", "Directory")>>},
     before_command      : {"pip install -r requirements.txt"},
     command             : {"python code.py"},
     requires_files      : {None, Some(<<CodeFile>>)},
     requires_user_files : {Some(<<CodeFile>>)}]

InitEnv ==
    /\ self = None /\ override = None /\ result = None /\ reverse = None
    /\ third = None /\ left = None /\ right = None
    /\ raised = FALSE
    /\ pc = "ready"
    /\ createKw = None /\ job = None /\ effective = None
    /\ envKw = None /\ env = None

(* env = WorkerEnvironment(kw), kw the keyword arguments *)
CallWorkerEnvironment ==
    /\ pc = "ready"
    /\ \E r \in EnvKwValues, G \in SUBSET EnvKwNames :
          /\ envKw' = Kwargs(r, G)
          /\ IF MissingFields(WorkerEnvironmentFields, Kwargs(r, G)) = {}
             THEN /\ env' = Construct(WorkerEnvironmentFields, Kwargs(r, G))
                  /\ raised' = FALSE
                  /\ pc' = "built"
             ELSE /\ env' = env
                  /\ raised' = TRUE
                  /\ pc' = "failed"
    /\ UNCHANGED <<combineVars, createVars>>

NextEnv == CallWorkerEnvironment

SpecEnv == InitEnv /\ [][NextEnv]_vars

---------------------------------------------------------------------------
(* SandboxJobCreate *)

(* An environment as a job embeds it *)
PythonEnvironment ==
    Construct(WorkerEnvironmentFields,
              [id |-> "python", image |-> "python:3.11",
               before_command |-> "pip install -r requirements.txt",
               command |-> "python code.py"])

(* SandboxCallback(url=u): token takes its default *)
SandboxCallback(u) == [url |-> u, token |-> None]

(* A SandboxJobCreate whose base_input defaults to the environment command *)
SandboxJobCreateFieldsCommandDefault ==
    [environment |-> Required,
     base_input  |-> Default([SandboxJobInput EXCEPT
                                 !.command = Some("python code.py")]),
     inputs      |-> Required,
     user_files  |-> Default(<<>>),
     callback    |-> Default(None),
     timeout     |-> Default(DefaultTimeout)]

(* The fields the class declares *)
SandboxJobCreateFields ==
    [environment |-> Required,
     base_input  |-> Default(SandboxJobInput),
     inputs      |-> Required,
     user_files  |-> Default(<<>>),
     callback    |-> Default(None),
     timeout     |-> Default(DefaultTimeout)]

CheckIds == {"t1", "t2"}

(* The inputs a job is created with: unset, partly set, empty-but-present *)
(* and fully set                                                          *)
JobInputs ==
    {SandboxJobInput,
     [SandboxJobInput EXCEPT !.stdin = Some("5")],
     [stdin |-> Some(""), parameters |-> Some(<<>>),
      files |-> Some(<<>>), command |-> Some("")],
     [stdin |-> Some("10"), parameters |-> Some(<<"-v">>),
      files |-> Some(<<CodeFile>>), command |-> Some("python solve.py")]}

CreateKwNames ==
    {"environment", "base_input", "inputs", "user_files", "callback", "timeout"}

CreateKwValues ==
    [environment : {PythonEnvironment},
     base_input  : JobInputs,
     inputs      : UNION {[ids -> JobInputs] : ids \in SUBSET CheckIds},
     user_files  : {<<>>, <<CodeFile>>},
     callback    : {None, Some(SandboxCallback("http://dojo/callback"))},
     timeout     : {DefaultTimeout, 2 * DefaultTimeout}]

InitCreate ==
    /\ self = None /\ override = None /\ result = None /\ reverse = None
    /\ third = None /\ left = None /\ right = None
    /\ raised = FALSE
    /\ pc = "ready"
    /\ createKw = None /\ job = None /\ effective = <<>>
    /\ envKw = None /\ env = None

(* job = SandboxJobCreate(kw), kw the keyword arguments *)
CallSandboxJobCreate ==
    /\ pc = "ready"
    /\ \E r \in CreateKwValues, G \in SUBSET CreateKwNames :
          /\ createKw' = Kwargs(r, G)
          /\ IF MissingFields(SandboxJobCreateFields, Kwargs(r, G)) = {}
             THEN /\ job' = Construct(SandboxJobCreateFields, Kwargs(r, G))
                  /\ raised' = FALSE
                  /\ pc' = "created"
             ELSE /\ job' = job
                  /\ raised' = TRUE
                  /\ pc' = "failed"
    /\ UNCHANGED <<combineVars, effective, envVars>>

(* effective[id] = job.base_input.combine(job.inputs[id]) *)
CallEffective ==
    /\ pc = "created"
    /\ \E id \in DOMAIN job["inputs"] \ DOMAIN effective :
          effective' =
              [i \in DOMAIN effective \cup {id} |->
                  IF i = id
                  THEN combine(job["base_input"], job["inputs"][id])
                  ELSE effective[i]]
    /\ UNCHANGED <<combineVars, raised, pc, createKw, job, envVars>>

NextCreate == CallSandboxJobCreate \/ CallEffective

SpecCreate == InitCreate /\ [][NextCreate]_vars

(* The input with every falsy field (None, "" or []) read as None *)
FalsyAsNone(i) ==
    [stdin      |-> IF TruthyStr(i.stdin) THEN i.stdin ELSE None,
     parameters |-> IF TruthyList(i.parameters) THEN i.parameters ELSE None,
     files      |-> IF TruthyList(i.files) THEN i.files ELSE None,
     command    |-> IF TruthyStr(i.command) THEN i.command ELSE None]

(* C6: a SandboxJobCreate built from only environment and inputs has a    *)
(* base_input with all four fields null, user_files the empty sequence,   *)
(* no callback and timeout 30; the effective input of every check,        *)
(* base_input.combine(inputs[id]), is then a function of inputs[id]       *)
(* alone: inputs[id] with its falsy fields read as null.                  *)
C6_CreateDefaults ==
    (pc = "created" /\ DOMAIN createKw = {"environment", "inputs"}) =>
        /\ \A f \in Fields : job["base_input"][f] = None
        /\ job["user_files"] = <<>>
        /\ job["callback"] = None
        /\ job["timeout"] = 30
        /\ job["inputs"] = createKw["inputs"]
        /\ \A id \in DOMAIN effective :
               effective[id] = FalsyAsNone(createKw["inputs"][id])

C6_Witness ==
    /\ pc = "created"
    /\ DOMAIN createKw = {"environment", "inputs"}
    /\ DOMAIN effective = CheckIds
    /\ createKw["inputs"]["t1"].stdin = Some("")
    /\ createKw["inputs"]["t1"].parameters = Some(<<>>)
    /\ effective["t1"] = SandboxJobInput
    /\ createKw["inputs"]["t2"].command = Some("python solve.py")
    /\ effective["t2"] = createKw["inputs"]["t2"]
    /\ job["timeout"] = 30

===========================================================================
